---- MODULE Spec2Model ----
(***************************************************************************)
(* CoinEx ETH/USDT monitor (src/index.js, canonical revision, lines 1-309). *)
(*                                                                         *)
(* State: the two candle series ethData['15m'] and ethData['4h'], the      *)
(* signal log signalsHistory, the notifications handed to                  *)
(* sendTelegramAlert with the outcome of each post, and the websocket.     *)
(* One action per handler: the app.listen callback (loadHistoricalData     *)
(* followed by setupCOINEXWebSocket), the ws.on('open'), ws.on('close')    *)
(* and ws.on('message') handlers (the last split by the path the message   *)
(* takes), the reconnect timer, the settling of a post, and the routes.    *)
(*                                                                         *)
(* Numbers.  JavaScript numbers are modelled as exact rationals with the   *)
(* two non-numbers the code can produce: NaN (parseFloat of a non-numeric  *)
(* field) and null (calculateEMA with too little data).  Rounding of IEEE  *)
(* doubles is not modelled.                                                *)
(*                                                                         *)
(* Sizes.  The code's sizes (capacity 300, gate 51 / 201, EMA periods      *)
(* 20 / 50 / 200) are scaled down so that series of every length up to the *)
(* capacity and exact EMA arithmetic stay within TLC's reach.  The scaled  *)
(* sizes keep the code's order:                                            *)
(*   EmaFast < EmaSlow < Min15m = EmaSlow + 1,                             *)
(*   EmaTrend < Min4h = EmaTrend + 1 < MaxCandles.                         *)
(* A candle carries timestamp and close; open, high, low and volume are    *)
(* parsed the same way as close and are never read by the code.            *)
(***************************************************************************)
EXTENDS Integers, Sequences, FiniteSets, TLC

\* ---- sizes of the program, scaled (see above) ----
MaxCandles == 6      \* index.js:190  length > 300
Min15m == 4          \* index.js:83   ethData['15m'].length < 51
Min4h == 5           \* index.js:83   ethData['4h'].length < 201
EmaFast == 2         \* index.js:93   calculateEMA(ethData['15m'], 20)
EmaSlow == 3         \* index.js:94   calculateEMA(ethData['15m'], 50)
EmaTrend == 4        \* index.js:92   calculateEMA(ethData['4h'], 200)

\* ---- bounds of the model ----
MaxEvents == 2       \* inbound websocket messages handled in one run
MaxLog == 7          \* signals in the log when the read endpoints are applied
MaxSockets == 3      \* sockets counted (later ones are created, not counted)
MaxEmaLen == 5       \* candles in a series handed to calculateEMA on its own
MaxPeriod == 3       \* period handed to calculateEMA on its own

\* ---- constants of the program ----
Interval15m == 900       \* index.js:152, 168
Interval4h == 14400      \* index.js:158
RecentCount == 5         \* index.js:276  signalsHistory.slice(0, 5)

VARIABLES ethData, signalsHistory, alerts, phase, clock, lastMsg, response,
          ws, subs, sockets, posts, emaCall

vars == <<ethData, signalsHistory, alerts, phase, clock, lastMsg, response,
          ws, subs, sockets, posts, emaCall>>

\* the websocket: its state, the streams subscribed on it, sockets created
connVars == <<ws, subs, sockets>>

Timeframes == {"15m", "4h"}

\* ---------------------------------------------------------------------------
\* JavaScript numbers
\* ---------------------------------------------------------------------------
RECURSIVE GCD(_, _)
GCD(a, b) == IF b = 0 THEN a ELSE GCD(b, a % b)

Abs(x) == IF x < 0 THEN -x ELSE x

NaN == [kind |-> "nan", n |-> 0, d |-> 1]
Null == [kind |-> "null", n |-> 0, d |-> 1]

\* the rational n/d, d > 0, in lowest terms
Rat(n, d) ==
  LET g == GCD(Abs(n), d)
  IN  [kind |-> "num", n |-> n \div g, d |-> d \div g]

Num(x) == Rat(x, 1)

\* ToNumber: null converts to 0 in arithmetic and relational operators
ToNumber(x) == IF x.kind = "null" THEN Num(0) ELSE x

Add(a, b) ==
  LET x == ToNumber(a)
      y == ToNumber(b)
  IN  IF x.kind = "nan" \/ y.kind = "nan" THEN NaN
      ELSE Rat(x.n * y.d + y.n * x.d, x.d * y.d)

Sub(a, b) ==
  LET x == ToNumber(a)
      y == ToNumber(b)
  IN  IF x.kind = "nan" \/ y.kind = "nan" THEN NaN
      ELSE Rat(x.n * y.d - y.n * x.d, x.d * y.d)

Mul(a, b) ==
  LET x == ToNumber(a)
      y == ToNumber(b)
  IN  IF x.kind = "nan" \/ y.kind = "nan" THEN NaN
      ELSE Rat(x.n * y.n, x.d * y.d)

\* a / b for b a positive integer (the only divisors the code uses)
DivInt(a, b) ==
  LET x == ToNumber(a)
  IN  IF x.kind = "nan" THEN NaN ELSE Rat(x.n, x.d * b)

\* a > b, a < b, a <= b, a >= b: false as soon as one side is NaN
Gt(a, b) ==
  LET x == ToNumber(a)
      y == ToNumber(b)
  IN  x.kind = "num" /\ y.kind = "num" /\ x.n * y.d > y.n * x.d

Lt(a, b) == Gt(b, a)

Le(a, b) ==
  LET x == ToNumber(a)
      y == ToNumber(b)
  IN  x.kind = "num" /\ y.kind = "num" /\ x.n * y.d <= y.n * x.d

Ge(a, b) == Le(b, a)

\* a === b on numbers: NaN is not equal to anything, itself included
StrictEq(a, b) ==
  a.kind = "num" /\ b.kind = "num" /\ a.n * b.d = b.n * a.d

\* !x on a number or null: true for null, NaN and 0
Falsy(x) == x.kind # "num" \/ x.n = 0

\* ---------------------------------------------------------------------------
\* Arrays
\* ---------------------------------------------------------------------------
\* [...data].reverse()
Reverse(s) == [i \in 1..Len(s) |-> s[Len(s) + 1 - i]]

\* arr.slice(1)
Slice1(s) == IF s = <<>> THEN <<>> ELSE Tail(s)

\* variant: arr.slice(-n), the last n entries
SliceTo_Last(s, n) ==
  SubSeq(s, IF Len(s) < n THEN 1 ELSE Len(s) - n + 1, Len(s))

\* arr.slice(0, n)
SliceTo(s, n) == SubSeq(s, 1, IF Len(s) < n THEN Len(s) ELSE n)

\* arr.unshift(x)
Unshift(s, x) == <<x>> \o s

\* variant: arr.shift(), dropping the first entry
Pop_Shift(s) == Tail(s)

\* arr.pop()
Pop(s) == SubSeq(s, 1, Len(s) - 1)

\* ---------------------------------------------------------------------------
\* Inbound data
\* ---------------------------------------------------------------------------
\* A field of a JSON array as it arrives: a number or numeric string, or
\* anything else (missing, text, object)
RawNum(x) == [text |-> "num", v |-> x]
Junk == [text |-> "junk", v |-> 0]

\* parseFloat(field) / parseInt(field)
parseFloat(raw) == IF raw.text = "num" THEN Num(raw.v) ELSE NaN

MsPerSecond == 1000

\* new Date(field * 1000), kept as its getTime()
DateOfSeconds(raw) == Mul(parseFloat(raw), Num(MsPerSecond))

\* the candle built from candleData (index.js:169-176) and from a bulk item
\* (index.js:237-244)
ParseCandle(item) ==
  [timestamp |-> DateOfSeconds(item.time), close |-> parseFloat(item.close)]

Closes == {1, 2}

\* candle open times (epoch seconds) a live update may carry: one older than
\* every bulk-loaded candle, the newest bulk-loaded ones, and later ones
LiveTimes == {0} \cup ((MaxCandles - 1)..(MaxCandles + 1))

\* candleData of a kline.update: well-formed, or with no numeric field at all
LiveCandleData ==
  {[time |-> RawNum(t), close |-> RawNum(c)] : t \in LiveTimes, c \in Closes}
    \cup {[time |-> Junk, close |-> Junk]}

LiveIntervals == {Interval15m, Interval4h}

\* res.data.data of the kline REST call: candles oldest first, open times
\* 1..n, all closes cOld except the newest, cNew
BulkLens == {0} \cup ((MaxCandles - 2)..MaxCandles)

BulkShapes == {<<1, 1>>, <<2, 2>>, <<1, 2>>}

BulkResponse(n, shape) ==
  [i \in 1..n |->
     [time |-> RawNum(i),
      close |-> RawNum(IF i = n THEN shape[2] ELSE shape[1])]]

BulkResponses ==
  {BulkResponse(n, shape) : n \in BulkLens, shape \in BulkShapes}

\* ---------------------------------------------------------------------------
\* calculateEMA (index.js:58-78)
\* ---------------------------------------------------------------------------
\* for (i = 0; i < period; i++) sum += reversedData[i].close
RECURSIVE SumCloses(_, _)
SumCloses(reversedData, count) ==
  IF count = 0 THEN Num(0)
  ELSE Add(SumCloses(reversedData, count - 1), reversedData[count].close)

\* for (i = period; i < length; i++) ema = close * k + ema * (1 - k);
\* from is the 1-based position of the next candle to fold in
RECURSIVE EmaLoop(_, _, _, _)
EmaLoop(reversedData, from, ema, k) ==
  IF from > Len(reversedData) THEN ema
  ELSE EmaLoop(reversedData, from + 1,
               Add(Mul(reversedData[from].close, k), Mul(ema, Sub(Num(1), k))),
               k)

\* variant: the loops run over data as it is, newest first
calculateEMA_NoReverse(data, period) ==
  IF Len(data) < period THEN Null
  ELSE LET sum == SumCloses(data, period)
           seed == DivInt(sum, period)
           k == Rat(2, period + 1)
       IN  EmaLoop(data, period + 1, seed, k)

calculateEMA(data, period) ==
  IF Len(data) < period THEN Null
  ELSE LET reversedData == Reverse(data)
           sum == SumCloses(reversedData, period)
           seed == DivInt(sum, period)
           k == Rat(2, period + 1)
       IN  EmaLoop(reversedData, period + 1, seed, k)

\* the caller's array after the call: reverse() works on the copy [...data]
ArgumentAfter(data) == data

\* ---------------------------------------------------------------------------
\* checkTradingSignals (index.js:81-141)
\* ---------------------------------------------------------------------------
\* the size gate (index.js:83), negated
EnoughData(data) ==
  ~(Len(data["15m"]) < Min15m \/ Len(data["4h"]) < Min4h)

\* index.js:102
Trend4h(current4h, ema200_4h) ==
  IF Gt(current4h.close, ema200_4h) THEN "bullish" ELSE "bearish"

\* variant: a strict comparison of the previous values
BuyCondition_Strict(trend4h, prevEma20, prevEma50, ema20_15m, ema50_15m) ==
  trend4h = "bullish" /\ Lt(prevEma20, prevEma50) /\ Gt(ema20_15m, ema50_15m)

\* index.js:118
BuyCondition(trend4h, prevEma20, prevEma50, ema20_15m, ema50_15m) ==
  trend4h = "bullish" /\ Le(prevEma20, prevEma50) /\ Gt(ema20_15m, ema50_15m)

\* index.js:130
SellCondition(trend4h, prevEma20, prevEma50, ema20_15m, ema50_15m) ==
  trend4h = "bearish" /\ Ge(prevEma20, prevEma50) /\ Lt(ema20_15m, ema50_15m)

\* index.js:119-124, 131-136; timestamp is new Date()
MakeSignal(type, current15m, now) ==
  [type |-> type, price |-> current15m.close, timestamp |-> now]

\* variant: neither the size gate nor the checks for missing values (reading the
\* head of an empty series throws, and the handler's catch drops the event)
checkTradingSignals_Unguarded(data, now) ==
  IF data["15m"] = <<>> \/ data["4h"] = <<>> THEN <<>>
  ELSE
    LET current15m == data["15m"][1]
        current4h == data["4h"][1]
        ema200_4h == calculateEMA(data["4h"], EmaTrend)
        ema20_15m == calculateEMA(data["15m"], EmaFast)
        ema50_15m == calculateEMA(data["15m"], EmaSlow)
        trend4h == Trend4h(current4h, ema200_4h)
        prevEma20 == calculateEMA(Slice1(data["15m"]), EmaFast)
        prevEma50 == calculateEMA(Slice1(data["15m"]), EmaSlow)
    IN
    IF BuyCondition(trend4h, prevEma20, prevEma50, ema20_15m, ema50_15m)
      THEN <<MakeSignal("BUY", current15m, now)>>
    ELSE IF SellCondition(trend4h, prevEma20, prevEma50, ema20_15m, ema50_15m)
      THEN <<MakeSignal("SELL", current15m, now)>>
    ELSE <<>>

\* The signals one call appends and dispatches: none or one.
checkTradingSignals(data, now) ==
  IF ~EnoughData(data) THEN <<>>
  ELSE
    LET current15m == data["15m"][1]
        current4h == data["4h"][1]
        ema200_4h == calculateEMA(data["4h"], EmaTrend)
        ema20_15m == calculateEMA(data["15m"], EmaFast)
        ema50_15m == calculateEMA(data["15m"], EmaSlow)
    IN
    IF Falsy(ema200_4h) \/ Falsy(ema20_15m) \/ Falsy(ema50_15m) THEN <<>>
    ELSE
      LET trend4h == Trend4h(current4h, ema200_4h)
          prevEma20 == calculateEMA(Slice1(data["15m"]), EmaFast)
          prevEma50 == calculateEMA(Slice1(data["15m"]), EmaSlow)
      IN
      IF Falsy(prevEma20) \/ Falsy(prevEma50) THEN <<>>
      ELSE IF BuyCondition(trend4h, prevEma20, prevEma50, ema20_15m, ema50_15m)
        THEN <<MakeSignal("BUY", current15m, now)>>
      ELSE IF SellCondition(trend4h, prevEma20, prevEma50, ema20_15m, ema50_15m)
        THEN <<MakeSignal("SELL", current15m, now)>>
      ELSE <<>>

\* variant: signalsHistory.push(signal)
LogSignals_Push(log, emitted) == log \o emitted

\* signalsHistory.unshift(signal) for each emitted signal
LogSignals(log, emitted) ==
  IF emitted = <<>> THEN log ELSE Unshift(log, emitted[1])

\* sendTelegramAlert(signal): the post is issued before the call returns
DispatchAlerts(sent, emitted) == sent \o emitted

\* the axios.post of each dispatched alert, awaited inside sendTelegramAlert
\* (index.js:46): pending until it settles
IssuePosts(outcomes, emitted) ==
  outcomes \o [i \in 1..Len(emitted) |-> "pending"]

\* ---------------------------------------------------------------------------
\* ws.on('message') (index.js:163-204)
\* ---------------------------------------------------------------------------
\* index.js:168
TimeframeOf(interval) == IF interval = Interval15m THEN "15m" ELSE "4h"

\* findIndex by getTime() equality (index.js:179-181); 0 stands for -1
FindIndex(series, candle) ==
  LET hits == {i \in 1..Len(series) :
                 StrictEq(series[i].timestamp, candle.timestamp)}
  IN  IF hits = {} THEN 0
      ELSE CHOOSE i \in hits : \A j \in hits : i <= j

\* variant: every update is inserted as a new candle
InsertOrReplace_AlwaysUnshift(series, candle) == Unshift(series, candle)

\* variant: an existing candle is removed and its update put at the head
InsertOrReplace_MoveToFront(series, candle) ==
  LET existingIndex == FindIndex(series, candle)
  IN  IF existingIndex # 0
        THEN Unshift(SubSeq(series, 1, existingIndex - 1)
                       \o SubSeq(series, existingIndex + 1, Len(series)),
                     candle)
        ELSE Unshift(series, candle)

\* index.js:183-187
InsertOrReplace(series, candle) ==
  LET existingIndex == FindIndex(series, candle)
  IN  IF existingIndex # 0 THEN [series EXCEPT ![existingIndex] = candle]
      ELSE Unshift(series, candle)

\* variant: the cap is applied one candle late
Trim_OneLate(series) == IF Len(series) > MaxCandles + 1 THEN Pop(series) ELSE series

\* index.js:190-192
Trim(series) == IF Len(series) > MaxCandles THEN Pop(series) ELSE series

Upsert(series, candle) == Trim(InsertOrReplace(series, candle))

NoCandle == [timestamp |-> NaN, close |-> NaN]

\* variant: the handler gives up its turn after the upsert; the trim and the
\* signal check are left for later
KlineUpdate_UpsertOnly(interval, candleData) ==
  LET timeframe == TimeframeOf(interval)
      candle == ParseCandle(candleData)
  IN  /\ phase = "live"
      /\ ws = "open"
      /\ clock < MaxEvents
      /\ ethData' = [ethData EXCEPT ![timeframe] = InsertOrReplace(@, candle)]
      /\ clock' = clock + 1
      /\ lastMsg' = [kind |-> "kline", timeframe |-> timeframe, candle |-> candle]
      /\ UNCHANGED <<signalsHistory, alerts, posts, phase, response, connVars,
                     emaCall>>

\* variant: the signals are checked after an update of either timeframe
KlineUpdate_AlwaysChecks(interval, candleData) ==
  LET timeframe == TimeframeOf(interval)
      candle == ParseCandle(candleData)
      newData == [ethData EXCEPT ![timeframe] = Upsert(@, candle)]
      emitted == checkTradingSignals(newData, clock + 1)
  IN  /\ phase = "live"
      /\ ws = "open"
      /\ clock < MaxEvents
      /\ ethData' = newData
      /\ signalsHistory' = LogSignals(signalsHistory, emitted)
      /\ alerts' = DispatchAlerts(alerts, emitted)
      /\ posts' = IssuePosts(posts, emitted)
      /\ clock' = clock + 1
      /\ lastMsg' = [kind |-> "kline", timeframe |-> timeframe, candle |-> candle]
      /\ UNCHANGED <<phase, response, connVars, emaCall>>

\* A kline.update whose params destructure and whose candleData can be indexed
KlineUpdate(interval, candleData) ==
  LET timeframe == TimeframeOf(interval)
      candle == ParseCandle(candleData)
      newData == [ethData EXCEPT ![timeframe] = Upsert(@, candle)]
      emitted == IF timeframe = "15m"
                   THEN checkTradingSignals(newData, clock + 1)
                   ELSE <<>>
  IN  /\ phase = "live"
      /\ ws = "open"
      /\ clock < MaxEvents
      /\ ethData' = newData
      /\ signalsHistory' = LogSignals(signalsHistory, emitted)
      /\ alerts' = DispatchAlerts(alerts, emitted)
      /\ posts' = IssuePosts(posts, emitted)
      /\ clock' = clock + 1
      /\ lastMsg' = [kind |-> "kline", timeframe |-> timeframe, candle |-> candle]
      /\ UNCHANGED <<phase, response, connVars, emaCall>>

\* A message on which the handler throws before it touches any state: text
\* that is not JSON, a kline.update without params, or without candleData.
\* The catch at index.js:201 logs it.
MessageThrows ==
  /\ phase = "live"
  /\ ws = "open"
  /\ clock < MaxEvents
  /\ clock' = clock + 1
  /\ lastMsg' = [kind |-> "throws", timeframe |-> "none", candle |-> NoCandle]
  /\ UNCHANGED <<ethData, signalsHistory, alerts, phase, response, connVars,
                 posts, emaCall>>

\* A JSON message whose method is not kline.update (a subscribe reply)
OtherMessage ==
  /\ phase = "live"
  /\ ws = "open"
  /\ clock < MaxEvents
  /\ clock' = clock + 1
  /\ lastMsg' = [kind |-> "other", timeframe |-> "none", candle |-> NoCandle]
  /\ UNCHANGED <<ethData, signalsHistory, alerts, phase, response, connVars,
                 posts, emaCall>>

\* ---------------------------------------------------------------------------
\* setupCOINEXWebSocket (index.js:144-214)
\* ---------------------------------------------------------------------------
\* sockets created so far; the count stops at MaxSockets and never blocks
CountSocket(n) == IF n < MaxSockets THEN n + 1 ELSE n

\* new WebSocket(...) with its handlers (index.js:145)
NewSocket ==
  /\ ws' = "connecting"
  /\ subs' = {}
  /\ sockets' = CountSocket(sockets)

\* ws.on('open'): both kline.subscribe requests are sent (index.js:147-161)
WsOpen ==
  /\ ws = "connecting"
  /\ ws' = "open"
  /\ subs' = {Interval15m, Interval4h}
  /\ UNCHANGED <<ethData, signalsHistory, alerts, phase, clock, lastMsg,
                 response, sockets, posts, emaCall>>

\* ws.on('close'), of an open socket or of one that failed to connect:
\* setTimeout(setupCOINEXWebSocket, 5000) (index.js:210-213).  ws.on('error')
\* only logs and is followed by this event.
WsClose ==
  /\ ws \in {"connecting", "open"}
  /\ ws' = "closed"
  /\ subs' = {}
  /\ UNCHANGED <<ethData, signalsHistory, alerts, phase, clock, lastMsg,
                 response, sockets, posts, emaCall>>

\* variant: the timer is not armed once MaxSockets sockets have been tried
ReconnectTimer_GivesUp ==
  /\ ws = "closed"
  /\ sockets < MaxSockets
  /\ NewSocket
  /\ UNCHANGED <<ethData, signalsHistory, alerts, phase, clock, lastMsg,
                 response, posts, emaCall>>

\* variant: the timer runs the whole start-up again
ReconnectTimer_Reloads ==
  /\ ws = "closed"
  /\ NewSocket
  /\ ethData' = [tf \in Timeframes |-> <<>>]
  /\ signalsHistory' = <<>>
  /\ UNCHANGED <<alerts, phase, clock, lastMsg, response, posts, emaCall>>

\* the 5 s timer fires: setupCOINEXWebSocket
ReconnectTimer ==
  /\ ws = "closed"
  /\ NewSocket
  /\ UNCHANGED <<ethData, signalsHistory, alerts, phase, clock, lastMsg,
                 response, posts, emaCall>>

\* ---------------------------------------------------------------------------
\* sendTelegramAlert after the post is issued (index.js:45-54)
\* ---------------------------------------------------------------------------
\* the post of alert i resolves: the success line is logged
AlertSent(i) ==
  /\ i \in 1..Len(posts)
  /\ posts[i] = "pending"
  /\ posts' = [posts EXCEPT ![i] = "sent"]
  /\ UNCHANGED <<ethData, signalsHistory, alerts, phase, clock, lastMsg,
                 response, connVars, emaCall>>

\* variant: no catch around the post; the rejection ends the process
AlertFails_Unhandled(i) ==
  /\ i \in 1..Len(posts)
  /\ posts[i] = "pending"
  /\ posts' = [posts EXCEPT ![i] = "failed"]
  /\ phase' = "crashed"
  /\ UNCHANGED <<ethData, signalsHistory, alerts, clock, lastMsg,
                 response, connVars, emaCall>>

\* the post of alert i rejects: the catch logs the error
AlertFails(i) ==
  /\ i \in 1..Len(posts)
  /\ posts[i] = "pending"
  /\ posts' = [posts EXCEPT ![i] = "failed"]
  /\ UNCHANGED <<ethData, signalsHistory, alerts, phase, clock, lastMsg,
                 response, connVars, emaCall>>

\* ---------------------------------------------------------------------------
\* app.listen callback: loadHistoricalData, then setupCOINEXWebSocket
\* (index.js:217-262, 298-309).  While phase is "loading" the two axios.get
\* calls are awaited; each action below is one way they settle.
\* ---------------------------------------------------------------------------
\* variant: the answer is kept oldest first
LoadSeries_NoReverse(items) == [i \in 1..Len(items) |-> ParseCandle(items[i])]

\* .map(item => candle).reverse()
LoadSeries(items) == Reverse([i \in 1..Len(items) |-> ParseCandle(items[i])])

\* both requests answer with a candle list
LoadOk(res15m, res4h) ==
  /\ phase = "loading"
  /\ ethData' = [ethData EXCEPT !["15m"] = LoadSeries(res15m),
                                !["4h"] = LoadSeries(res4h)]
  /\ phase' = "live"
  /\ NewSocket
  /\ UNCHANGED <<signalsHistory, alerts, clock, lastMsg, response, posts, emaCall>>

\* a request fails, or the 15m answer has no candle list: nothing is assigned
LoadFails ==
  /\ phase = "loading"
  /\ phase' = "live"
  /\ NewSocket
  /\ UNCHANGED <<ethData, signalsHistory, alerts, clock, lastMsg, response,
                 posts, emaCall>>

\* the 15m answer is a candle list, the 4h answer is not: the 15m series is
\* assigned before the 4h line throws
LoadPartial(res15m) ==
  /\ phase = "loading"
  /\ ethData' = [ethData EXCEPT !["15m"] = LoadSeries(res15m)]
  /\ phase' = "live"
  /\ NewSocket
  /\ UNCHANGED <<signalsHistory, alerts, clock, lastMsg, response, posts, emaCall>>

\* ---------------------------------------------------------------------------
\* Read endpoints (index.js:265-285)
\* ---------------------------------------------------------------------------
NoResponse == [kind |-> "none"]

\* The routes are registered before app.listen: a request is answered in every
\* phase, from whatever the state holds.
\* GET /api/status
StatusResponse ==
  [kind |-> "status",
   status |-> "running",
   exchange |-> "COINEX",
   pair |-> "ETH/USDT",
   currentPrice |-> IF Len(ethData["15m"]) > 0 THEN ethData["15m"][1].close
                    ELSE Null,
   dataPoints |-> [tf \in Timeframes |-> Len(ethData[tf])],
   lastSignals |-> SliceTo(signalsHistory, RecentCount)]

\* GET /api/signals
SignalsResponse ==
  [kind |-> "signals",
   signals |-> signalsHistory,
   count |-> Len(signalsHistory)]

GetStatus ==
  /\ response' = StatusResponse
  /\ UNCHANGED <<ethData, signalsHistory, alerts, phase, clock, lastMsg,
                 connVars, posts, emaCall>>

GetSignals ==
  /\ response' = SignalsResponse
  /\ UNCHANGED <<ethData, signalsHistory, alerts, phase, clock, lastMsg,
                 connVars, posts, emaCall>>

\* ---------------------------------------------------------------------------
\* The program
\* ---------------------------------------------------------------------------
\* no call of calculateEMA observed on its own
NoCall ==
  [called |-> FALSE, data |-> <<>>, after |-> <<>>, period |-> 0, result |-> Null]

Init ==
  /\ ethData = [tf \in Timeframes |-> <<>>]
  /\ signalsHistory = <<>>
  /\ alerts = <<>>
  /\ phase = "loading"
  /\ clock = 0
  /\ lastMsg = [kind |-> "none", timeframe |-> "none", candle |-> NoCandle]
  /\ response = NoResponse
  /\ ws = "none"
  /\ subs = {}
  /\ sockets = 0
  /\ posts = <<>>
  /\ emaCall = NoCall

\* A run on the first connection: the socket opens and stays open.
Next ==
  \/ \E res15m \in BulkResponses, res4h \in BulkResponses : LoadOk(res15m, res4h)
  \/ LoadFails
  \/ \E res15m \in BulkResponses : LoadPartial(res15m)
  \/ \E interval \in LiveIntervals, candleData \in LiveCandleData :
       KlineUpdate(interval, candleData)
  \/ MessageThrows
  \/ OtherMessage
  \/ WsOpen

Spec == Init /\ [][Next]_vars

\* ---------------------------------------------------------------------------
\* The read endpoints applied to a running program: any loaded series and a
\* log of up to MaxLog signals, one per handled event, newest first
\* ---------------------------------------------------------------------------
SignalTypes == {"BUY", "SELL"}

\* the log after n events that each emitted a signal of the given type
LogOf(types) ==
  [i \in 1..Len(types) |->
     [type |-> types[i], price |-> Num(1), timestamp |-> Len(types) + 1 - i]]

Logs == UNION {{LogOf(types) : types \in [1..n -> SignalTypes]} : n \in 0..MaxLog}

QueryInit ==
  /\ \E res15m \in BulkResponses, res4h \in BulkResponses :
       ethData = [tf \in Timeframes |->
                    IF tf = "15m" THEN LoadSeries(res15m) ELSE LoadSeries(res4h)]
  /\ signalsHistory \in Logs
  /\ alerts = Reverse(signalsHistory)
  /\ phase = "live"
  /\ clock = Len(signalsHistory)
  /\ lastMsg = [kind |-> "none", timeframe |-> "none", candle |-> NoCandle]
  /\ response = NoResponse
  /\ ws = "open"
  /\ subs = {Interval15m, Interval4h}
  /\ sockets = 1
  /\ posts = [i \in 1..Len(signalsHistory) |-> "sent"]
  /\ emaCall = NoCall

QueryNext == GetStatus \/ GetSignals

SpecQuery == QueryInit /\ [][QueryNext]_vars

\* ---------------------------------------------------------------------------
\* The program with its connection closing and reconnecting and its alert
\* posts settling.  One bulk answer (flat at close 2, one candle short of the
\* cap) and updates of the two candles after it keep the runs small; a drop to
\* close 1 crosses the fast EMA under the slow one.
\* ---------------------------------------------------------------------------
ConnBulk == BulkResponse(MaxCandles - 1, <<2, 2>>)

ConnCandleData ==
  {[time |-> RawNum(t), close |-> RawNum(c)] :
     t \in MaxCandles..(MaxCandles + 1), c \in Closes}

ConnNext ==
  \/ LoadOk(ConnBulk, ConnBulk)
  \/ LoadFails
  \/ \E interval \in LiveIntervals, candleData \in ConnCandleData :
       KlineUpdate(interval, candleData)
  \/ WsOpen
  \/ WsClose
  \/ ReconnectTimer
  \/ \E i \in 1..MaxEvents : AlertSent(i)
  \/ \E i \in 1..MaxEvents : AlertFails(i)

\* A timer that was set fires (setTimeout, index.js:212).  Nothing in the code
\* makes a request or a connection attempt settle, so nothing else is assumed.
ConnFairness == WF_vars(ReconnectTimer)

SpecConn == Init /\ [][ConnNext]_vars /\ ConnFairness

\* ---------------------------------------------------------------------------
\* The program answering queries between its events.  Each handler runs to its
\* end before the next callback starts (no await in the message handler nor in
\* the routes), so a query is a step between two handler steps.  A full flat
\* 15m series makes an insert evict and a drop to close 1 emit a signal.
\* ---------------------------------------------------------------------------
ServeBulk15m == BulkResponse(MaxCandles, <<2, 2>>)

ServeNext ==
  \/ LoadOk(ServeBulk15m, ConnBulk)
  \/ LoadFails
  \/ \E interval \in LiveIntervals, candleData \in ConnCandleData :
       KlineUpdate(interval, candleData)
  \/ MessageThrows
  \/ WsOpen
  \/ GetStatus
  \/ GetSignals

SpecServe == Init /\ [][ServeNext]_vars

\* ---------------------------------------------------------------------------
\* calculateEMA applied on its own to a newest-first series of up to MaxEmaLen
\* candles with a period of up to MaxPeriod
\* ---------------------------------------------------------------------------
EmaCloses == {1, 2, 3}

\* newest first: the candle at position i opened at second Len + 1 - i
SeriesOf(closes) ==
  [i \in 1..Len(closes) |->
     [timestamp |-> Num((Len(closes) + 1 - i) * MsPerSecond),
      close |-> Num(closes[i])]]

EmaInputs ==
  UNION {{SeriesOf(closes) : closes \in [1..n -> EmaCloses]} : n \in 0..MaxEmaLen}

EmaInit ==
  /\ ethData = [tf \in Timeframes |-> <<>>]
  /\ signalsHistory = <<>>
  /\ alerts = <<>>
  /\ phase = "live"
  /\ clock = 0
  /\ lastMsg = [kind |-> "none", timeframe |-> "none", candle |-> NoCandle]
  /\ response = NoResponse
  /\ ws = "open"
  /\ subs = {Interval15m, Interval4h}
  /\ sockets = 1
  /\ posts = <<>>
  /\ \E data \in EmaInputs, period \in 1..MaxPeriod :
       emaCall = [NoCall EXCEPT !.data = data, !.after = data, !.period = period]

\* one call calculateEMA(data, period)
CallEMA ==
  /\ ~emaCall.called
  /\ emaCall' = [emaCall EXCEPT !.called = TRUE,
                                !.after = ArgumentAfter(emaCall.data),
                                !.result = calculateEMA(emaCall.data, emaCall.period)]
  /\ UNCHANGED <<ethData, signalsHistory, alerts, phase, clock, lastMsg,
                 response, connVars, posts>>

EmaNext == CallEMA

SpecEma == EmaInit /\ [][EmaNext]_vars

\* ===========================================================================
\* Properties
\* ===========================================================================
\* A step that handles one kline.update for the given timeframe
KlineStep(tf) ==
  /\ clock' = clock + 1
  /\ lastMsg'.kind = "kline"
  /\ lastMsg'.timeframe = tf

ValidTime(c) == c.timestamp.kind = "num"

\* position of the entry with the candle's timestamp, 0 if there is none
IndexOfTime(series, candle) ==
  IF \E i \in 1..Len(series) : StrictEq(series[i].timestamp, candle.timestamp)
    THEN CHOOSE i \in 1..Len(series) :
           StrictEq(series[i].timestamp, candle.timestamp)
    ELSE 0

HasTime(series, seconds) ==
  \E i \in 1..Len(series) :
    StrictEq(series[i].timestamp, Num(seconds * MsPerSecond))

\* strictly newest first by timestamp
Descending(series) ==
  \A i \in 1..Len(series) : \A j \in 1..Len(series) :
    i < j => Gt(series[i].timestamp, series[j].timestamp)

\* ---- C1 ----
\* C1: with bulk loads of at most MaxCandles candles per timeframe, each of
\* the two series holds at most MaxCandles entries in every state between
\* events.
C1_Capacity == \A tf \in Timeframes : Len(ethData[tf]) <= MaxCandles

\* a full series that no longer holds the oldest bulk-loaded candle: a live
\* insert has pushed it out
C1_Witness ==
  \E tf \in Timeframes :
    /\ lastMsg.kind = "kline" /\ lastMsg.timeframe = tf
    /\ Len(ethData[tf]) = MaxCandles
    /\ ~HasTime(ethData[tf], 1)

\* ---- C2 ----
\* C2: with bulk loads of pairwise distinct timestamps, after any sequence of
\* live updates no two entries of one series share a timestamp.
C2_Uniqueness ==
  \A tf \in Timeframes :
    \A i \in 1..Len(ethData[tf]) : \A j \in 1..Len(ethData[tf]) :
      i # j => ~StrictEq(ethData[tf][i].timestamp, ethData[tf][j].timestamp)

\* a 15m update repeated the timestamp of an entry below the head and now
\* sits at that entry's place
C2_Witness ==
  /\ lastMsg.kind = "kline" /\ lastMsg.timeframe = "15m"
  /\ IndexOfTime(ethData["15m"], lastMsg.candle) >= 2
  /\ ethData["15m"][IndexOfTime(ethData["15m"], lastMsg.candle)] = lastMsg.candle

\* ---- C3 ----
\* C3: an update whose timestamp equals that of an entry of its series
\* replaces exactly that entry where it is: the length is unchanged, every
\* other entry keeps value and position, the other series is unchanged.
C3_ReplaceInPlace ==
  [][\A tf \in Timeframes :
       LET series == ethData[tf]
           idx == IndexOfTime(series, lastMsg'.candle)
       IN  (KlineStep(tf) /\ idx # 0) =>
             /\ Len(ethData'[tf]) = Len(series)
             /\ ethData'[tf][idx] = lastMsg'.candle
             /\ \A j \in 1..Len(series) : j # idx => ethData'[tf][j] = series[j]
             /\ \A other \in Timeframes \ {tf} : ethData'[other] = ethData[other]
    ]_vars

\* a 4h update replaced an entry below the head of a full series, changing
\* its close
C3_Witness ==
  /\ lastMsg.kind = "kline" /\ lastMsg.timeframe = "4h"
  /\ Len(ethData["4h"]) = MaxCandles
  /\ HasTime(ethData["4h"], 1)
  /\ \E i \in 2..Len(ethData["4h"]) :
       /\ ethData["4h"][i] = lastMsg.candle
       /\ ethData["4h"][i].close # ethData["4h"][MaxCandles].close

\* ---- C4 ----
\* the entries of a series whose timestamp is the earliest
Earliest(series) ==
  {i \in 1..Len(series) :
     \A j \in 1..Len(series) : Le(series[i].timestamp, series[j].timestamp)}

\* series with the entry at position i removed
Without(series, i) == SubSeq(series, 1, i - 1) \o SubSeq(series, i + 1, Len(series))

\* an update with a new timestamp for a series holding MaxCandles entries,
\* all with valid timestamps
FullInsertStep(tf) ==
  /\ KlineStep(tf)
  /\ ValidTime(lastMsg'.candle)
  /\ Len(ethData[tf]) = MaxCandles
  /\ \A i \in 1..Len(ethData[tf]) : ValidTime(ethData[tf][i])
  /\ IndexOfTime(ethData[tf], lastMsg'.candle) = 0

\* C4 as claimed: a new-timestamp update for a full series evicts exactly one
\* entry, the one with the earliest timestamp, and the length stays
\* MaxCandles, for every arrival order.
C4_EvictsEarliest ==
  [][\A tf \in Timeframes :
       FullInsertStep(tf) =>
         /\ Len(ethData'[tf]) = MaxCandles
         /\ \E i \in Earliest(ethData[tf]) :
              ethData'[tf] = <<lastMsg'.candle>> \o Without(ethData[tf], i)
    ]_vars

\* C4 amended: a new-timestamp update for a full series evicts exactly one
\* entry, the one at the last position (the entry inserted longest ago), and
\* the length stays MaxCandles, for every arrival order; the evicted entry has
\* the earliest timestamp when the series is in descending timestamp order.
C4_EvictsLast ==
  [][\A tf \in Timeframes :
       FullInsertStep(tf) =>
         /\ Len(ethData'[tf]) = MaxCandles
         /\ ethData'[tf] =
              <<lastMsg'.candle>> \o Without(ethData[tf], Len(ethData[tf]))
         /\ Descending(ethData[tf]) => Len(ethData[tf]) \in Earliest(ethData[tf])
    ]_vars

\* an insert into a full series that was out of timestamp order: the candle
\* of open time 0 arrived late and now sits right below the new head
C4_Witness ==
  \E tf \in Timeframes :
    /\ lastMsg.kind = "kline" /\ lastMsg.timeframe = tf
    /\ Len(ethData[tf]) = MaxCandles
    /\ ethData[tf][1] = lastMsg.candle
    /\ StrictEq(ethData[tf][2].timestamp, Num(0))
    /\ Gt(ethData[tf][1].timestamp, ethData[tf][3].timestamp)

\* ---- C5 ----
\* this step put one signal of the given type at the head of the log
Appended(type) ==
  /\ signalsHistory' # <<>>
  /\ Tail(signalsHistory') = signalsHistory
  /\ signalsHistory'[1].type = type

\* the five indicator values of a data set
Ema200_4h(data) == calculateEMA(data["4h"], EmaTrend)
Ema20_15m(data) == calculateEMA(data["15m"], EmaFast)
Ema50_15m(data) == calculateEMA(data["15m"], EmaSlow)
PrevEma20(data) == calculateEMA(Slice1(data["15m"]), EmaFast)
PrevEma50(data) == calculateEMA(Slice1(data["15m"]), EmaSlow)

\* evaluation is reached: the size gate is passed and the five values exist
Evaluated(data) ==
  /\ EnoughData(data)
  /\ ~Falsy(Ema200_4h(data)) /\ ~Falsy(Ema20_15m(data)) /\ ~Falsy(Ema50_15m(data))
  /\ ~Falsy(PrevEma20(data)) /\ ~Falsy(PrevEma50(data))

Bullish(data) == Gt(data["4h"][1].close, Ema200_4h(data))

CrossUp(data) ==
  Le(PrevEma20(data), PrevEma50(data)) /\ Gt(Ema20_15m(data), Ema50_15m(data))

CrossDown(data) ==
  Ge(PrevEma20(data), PrevEma50(data)) /\ Lt(Ema20_15m(data), Ema50_15m(data))

\* C5: when a 15m update reaches evaluation, a BUY is appended iff the 4h
\* trend is bullish and the fast EMA crossed above the slow one, a SELL iff the
\* trend is bearish and it crossed below; every 15m update appends no signal
\* or one, never a BUY and a SELL.
C5_SignalRule ==
  [][KlineStep("15m") =>
       /\ Len(signalsHistory') \in {Len(signalsHistory), Len(signalsHistory) + 1}
       /\ ~(Appended("BUY") /\ Appended("SELL"))
       /\ Evaluated(ethData') =>
            /\ Appended("BUY") <=> (Bullish(ethData') /\ CrossUp(ethData'))
            /\ Appended("SELL") <=> (~Bullish(ethData') /\ CrossDown(ethData'))
    ]_vars

\* the last event was a 15m update that reached evaluation on a bullish trend
\* and appended a BUY
C5_Witness ==
  /\ lastMsg.kind = "kline" /\ lastMsg.timeframe = "15m"
  /\ Evaluated(ethData) /\ Bullish(ethData) /\ CrossUp(ethData)
  /\ signalsHistory # <<>>
  /\ signalsHistory[1].type = "BUY"
  /\ signalsHistory[1].timestamp = clock

\* ---- C6 ----
\* C6: one crossover between the previous window and the current candle
\* appends one signal and dispatches one notification, also when several
\* successive updates carry that candle's timestamp.  Stated on two successive
\* events: when the last event emitted a signal for the crossover from the
\* window below the head to the head candle, a further update of that head
\* candle (same timestamp, same window below it, same 4h series, the series in
\* timestamp order) emits none.
C6_OncePerCrossover ==
  [][( /\ signalsHistory # <<>>
       /\ signalsHistory[1].timestamp = clock
       /\ KlineStep("15m")
       /\ ethData'["15m"] # <<>>
       /\ Descending(ethData'["15m"])
       /\ StrictEq(ethData'["15m"][1].timestamp, ethData["15m"][1].timestamp)
       /\ Tail(ethData'["15m"]) = Tail(ethData["15m"])
       /\ ethData'["4h"] = ethData["4h"] )
      => (signalsHistory' = signalsHistory /\ alerts' = alerts)
    ]_vars

\* ---- C7 ----
\* the spec's thresholds: one below the gate of the code
SpecMin15m == Min15m - 1
SpecMin4h == Min4h - 1

\* C7: a 15m update after which the 15m series has fewer than SpecMin15m
\* candles or the 4h series fewer than SpecMin4h appends no signal and
\* dispatches no notification, whatever the closes are.
C7_NoSignalWithoutData ==
  [][( /\ KlineStep("15m")
       /\ \/ Len(ethData'["15m"]) < SpecMin15m
          \/ Len(ethData'["4h"]) < SpecMin4h )
      => (signalsHistory' = signalsHistory /\ alerts' = alerts)
    ]_vars

\* a 15m update left a short 15m series whose fast EMA exists and is above
\* zero, with a 4h series long enough and bullish
C7_Witness ==
  /\ lastMsg.kind = "kline" /\ lastMsg.timeframe = "15m"
  /\ Len(ethData["15m"]) < SpecMin15m
  /\ Len(ethData["15m"]) >= EmaFast
  /\ Len(ethData["4h"]) >= Min4h
  /\ Bullish(ethData)
  /\ signalsHistory = <<>>

\* ---- C8 ----
\* C8: the log only grows at the head: every event leaves it unchanged or puts
\* one entry in front of it; entries are never modified, reordered or removed,
\* and the log is ordered most recently appended first.
C8_AppendOnlyAtHead ==
  [][\/ signalsHistory' = signalsHistory
     \/ /\ signalsHistory' # <<>>
        /\ Tail(signalsHistory') = signalsHistory
        /\ \A i \in 1..Len(signalsHistory) :
             signalsHistory'[1].timestamp > signalsHistory[i].timestamp
    ]_vars

\* two signals in the log, of different events
C8_Witness ==
  /\ Len(signalsHistory) >= 2
  /\ signalsHistory[1].timestamp > signalsHistory[2].timestamp
  /\ signalsHistory[1] # signalsHistory[2]

\* ---- C10 ----
Malformed(msg) ==
  \/ msg.kind = "throws"
  \/ msg.kind = "kline" /\ (msg.candle.close.kind = "nan" \/ ~ValidTime(msg.candle))

\* C10: a malformed inbound message (not JSON, or a kline.update whose params
\* or candle fields are missing or not numeric) is discarded: both series and
\* the signal log are the same after it as before it.
C10_MalformedDiscarded ==
  [][(clock' = clock + 1 /\ Malformed(lastMsg'))
      => (ethData' = ethData /\ signalsHistory' = signalsHistory)
    ]_vars

\* ---- C9 ----
\* C9: for a log of any length n, the status query's lastSignals are the
\* min(RecentCount, n) most recently appended signals, most recent first, and
\* the signals query returns the whole log with count = n.
C9_RecentSignals ==
  LET n == Len(signalsHistory)
      m == IF n < RecentCount THEN n ELSE RecentCount
  IN  /\ response.kind = "status" =>
           /\ Len(response.lastSignals) = m
           /\ \A i \in 1..m : response.lastSignals[i] = signalsHistory[i]
           /\ \A i \in 1..m : \A j \in 1..m :
                i < j => response.lastSignals[i].timestamp
                           > response.lastSignals[j].timestamp
      /\ response.kind = "signals" =>
           /\ response.signals = signalsHistory
           /\ response.count = n

\* a status answer on a log longer than RecentCount
C9_Witness ==
  /\ response.kind = "status"
  /\ Len(signalsHistory) > RecentCount
  /\ Len(response.lastSignals) = RecentCount

\* ---- C13 ----
\* sum of the closes at positions from..to
RECURSIVE CloseSum(_, _, _)
CloseSum(data, from, to) ==
  IF from > to THEN Num(0)
  ELSE Add(data[from].close, CloseSum(data, from + 1, to))

\* the reference EMA as of the candle at position j of a newest-first series:
\* the mean of the period oldest closes at the newest of them, and from there
\* close * k + previous * (1 - k), k = 2 / (period + 1), one candle at a time
RECURSIVE RefEMA(_, _, _)
RefEMA(data, j, period) ==
  LET seedAt == Len(data) - period + 1
      k == Rat(2, period + 1)
  IN  IF j = seedAt
        THEN DivInt(CloseSum(data, seedAt, Len(data)), period)
        ELSE Add(Mul(data[j].close, k),
                 Mul(RefEMA(data, j + 1, period), Rat(period - 1, period + 1)))

\* C13: calculateEMA on a newest-first series returns null exactly when the
\* series has fewer than period candles; otherwise its result is the
\* reference EMA as of the newest candle (position 1); the series handed in is
\* left as it was.
C13_EmaReference ==
  emaCall.called =>
    /\ (emaCall.result = Null) <=> (Len(emaCall.data) < emaCall.period)
    /\ Len(emaCall.data) >= emaCall.period =>
         emaCall.result = RefEMA(emaCall.data, 1, emaCall.period)
    /\ emaCall.after = emaCall.data

\* a call on a series longer than the period whose oldest and newest closes
\* differ
C13_Witness ==
  /\ emaCall.called
  /\ Len(emaCall.data) > emaCall.period + 1
  /\ emaCall.period >= 2
  /\ emaCall.data[1].close # emaCall.data[Len(emaCall.data)].close
  /\ emaCall.result.kind = "num"
  /\ emaCall.result.d > 1

\* ---- C11 ----
\* C11: after every close of the socket a new connection is attempted, however
\* many closes came before; a socket that is open has subscribed to both
\* streams; no state of a closed socket is without its pending reconnect.
C11_Reconnects ==
  /\ [](ws = "closed" => ENABLED ReconnectTimer)
  /\ (ws = "closed" ~> ws = "connecting")
  /\ [](ws = "open" <=> subs = {Interval15m, Interval4h})

\* the socket opened after MaxSockets - 1 closes is subscribed to both streams
C11_Witness ==
  /\ sockets = MaxSockets
  /\ ws = "open"
  /\ subs = {Interval15m, Interval4h}

\* ---- C12 ----
\* C12: no operation blocks for ever: a start-up whose bulk fetch does not
\* answer still gets its websocket started, and every alert post that was
\* issued is eventually no longer awaited.
C12_NoIndefiniteWait ==
  /\ (phase = "loading" ~> ws # "none")
  /\ \A i \in 1..MaxEvents :
       (Len(posts) >= i /\ posts[i] = "pending") ~>
         (Len(posts) >= i /\ posts[i] # "pending")

\* ---- C17 ----
\* a step in which a pending alert post fails
PostFailsStep ==
  \E i \in 1..Len(posts) : posts[i] = "pending" /\ posts'[i] = "failed"

\* what handling the update of lastMsg' makes of the series and the log,
\* computed from the series, the log and the update alone
HandledAsUsual(tf) ==
  LET newData == [ethData EXCEPT ![tf] = Upsert(@, lastMsg'.candle)]
      emitted == IF tf = "15m" THEN checkTradingSignals(newData, clock') ELSE <<>>
  IN  /\ ethData' = newData
      /\ signalsHistory' = LogSignals(signalsHistory, emitted)
      /\ alerts' = DispatchAlerts(alerts, emitted)

\* C17: a failing alert post changes nothing but its own outcome: the signal
\* stays in the log, no series changes, nothing is dispatched again, the
\* process and its connection go on; whether earlier posts failed or succeeded
\* makes no difference to what the handler does with a later update.
C17_FireAndForget ==
  /\ [][PostFailsStep =>
          /\ UNCHANGED <<ethData, signalsHistory, alerts, phase, clock, lastMsg,
                         connVars>>
          /\ Len(posts') = Len(posts)
     ]_vars
  /\ [][\A tf \in Timeframes : KlineStep(tf) => HandledAsUsual(tf)]_vars
  /\ [](Len(posts) = Len(alerts) /\ Len(alerts) = Len(signalsHistory))

\* the first alert's post failed, its signal is in the log, and a later update
\* was handled and emitted a second signal whose post is still awaited
C17_Witness ==
  /\ Len(posts) = 2
  /\ posts[1] = "failed"
  /\ posts[2] = "pending"
  /\ Len(signalsHistory) = 2
  /\ alerts[1] = signalsHistory[2]

\* ---- C18 ----
\* C18: once the program is live, a step that changes the connection (close,
\* reconnect, open) leaves both series and the signal log as they are, and the
\* bulk load is not run again; they change only in a step that handles a
\* kline.update.
C18_ReconnectKeepsState ==
  [][phase = "live" =>
       /\ phase' = "live"
       /\ (<<ws, subs, sockets>> # <<ws', subs', sockets'>> =>
             ethData' = ethData /\ signalsHistory' = signalsHistory)
       /\ (ethData' # ethData \/ signalsHistory' # signalsHistory =>
             \E tf \in Timeframes : KlineStep(tf))
  ]_vars

\* a later socket is open, on loaded series and a log with a signal in it
C18_Witness ==
  /\ sockets >= 2
  /\ ws = "open"
  /\ Len(signalsHistory) >= 1
  /\ Len(ethData["15m"]) = MaxCandles
  /\ Len(ethData["4h"]) = MaxCandles - 1

\* ---- C14 ----
\* C14: the price of a signal emitted while handling a 15m update is the
\* close of the candle that update carried, wherever in the series the update
\* was put.
C14_PriceOfUpdate ==
  [][KlineStep("15m") /\ Len(signalsHistory') > Len(signalsHistory) =>
       signalsHistory'[1].price = lastMsg'.candle.close
  ]_vars

\* ---- C15 ----
\* the five indicator values exist
ValuesExist(data) ==
  /\ ~Falsy(Ema200_4h(data)) /\ ~Falsy(Ema20_15m(data)) /\ ~Falsy(Ema50_15m(data))
  /\ ~Falsy(PrevEma20(data)) /\ ~Falsy(PrevEma50(data))

\* C15: the gate is at SpecMin15m and SpecMin4h: a 15m update that leaves
\* exactly SpecMin4h 4h candles and at least SpecMin15m + 1 15m candles is
\* evaluated, so that a qualifying crossover appends its signal (the 15m
\* series in timestamp order).
C15_GateAtSpecThresholds ==
  [][( /\ KlineStep("15m")
       /\ Len(ethData'["4h"]) = SpecMin4h
       /\ Len(ethData'["15m"]) >= SpecMin15m + 1
       /\ Descending(ethData'["15m"])
       /\ ValuesExist(ethData') )
      => /\ (Bullish(ethData') /\ CrossUp(ethData')) => Appended("BUY")
         /\ (~Bullish(ethData') /\ CrossDown(ethData')) => Appended("SELL")
    ]_vars

\* ---- C16 ----
\* C16: handling a 4h update leaves the signal log and the 15m series as they
\* are and dispatches no notification, whatever the two series hold.
C16_FourHourFrame ==
  [][KlineStep("4h") =>
       /\ signalsHistory' = signalsHistory
       /\ alerts' = alerts
       /\ posts' = posts
       /\ ethData'["15m"] = ethData["15m"]
    ]_vars

\* the first event was a 4h update that changed the 4h series; the data it
\* left passes the gate, is bullish and holds a crossover, and nothing was
\* logged
C16_Witness ==
  /\ clock = 1
  /\ lastMsg.kind = "kline" /\ lastMsg.timeframe = "4h"
  /\ ethData["4h"] # <<>> /\ ethData["4h"][1] = lastMsg.candle
  /\ Evaluated(ethData) /\ Bullish(ethData) /\ CrossUp(ethData)
  /\ signalsHistory = <<>>
  /\ alerts = <<>>

\* ---- C20 ----
\* the update of lastMsg' is delivered in order for the series: its timestamp
\* is a number not below the newest one held
InOrder(series) ==
  /\ ValidTime(lastMsg'.candle)
  /\ series # <<>> => Ge(lastMsg'.candle.timestamp, series[1].timestamp)

\* C20: under in-order delivery each series is strictly descending by
\* timestamp in every state: it is so after the bulk load, and an in-order
\* update of a descending series leaves it descending, with the newest candle
\* at the head and, below the head, the series as it was (less the evicted
\* candle) after an insert or the same candles as before after a replacement
\* of the head.
C20_Descending ==
  /\ [](phase = "live" /\ clock = 0 =>
          \A tf \in Timeframes : Descending(ethData[tf]))
  /\ [][\A tf \in Timeframes :
          (KlineStep(tf) /\ Descending(ethData[tf]) /\ InOrder(ethData[tf])) =>
            /\ Descending(ethData'[tf])
            /\ ethData'[tf][1] = lastMsg'.candle
            /\ \A i \in 2..Len(ethData'[tf]) :
                 Gt(ethData'[tf][1].timestamp, ethData'[tf][i].timestamp)
            /\ Slice1(ethData'[tf]) =
                 IF ethData[tf] # <<>> /\
                    StrictEq(lastMsg'.candle.timestamp, ethData[tf][1].timestamp)
                   THEN Slice1(ethData[tf])
                 ELSE IF Len(ethData[tf]) = MaxCandles THEN Pop(ethData[tf])
                 ELSE ethData[tf]
     ]_vars

\* two in-order 15m updates on a full bulk-loaded series: a new candle, which
\* evicted the oldest one, and then an update of that candle with another close
C20_Witness ==
  /\ clock = 2
  /\ lastMsg.kind = "kline" /\ lastMsg.timeframe = "15m"
  /\ Len(ethData["15m"]) = MaxCandles
  /\ Descending(ethData["15m"])
  /\ ethData["15m"][1] = lastMsg.candle
  /\ StrictEq(ethData["15m"][1].timestamp, Num((MaxCandles + 1) * MsPerSecond))
  /\ ~HasTime(ethData["15m"], 1)
  /\ HasTime(ethData["15m"], 2)
  /\ Len(signalsHistory) = 2

\* ---- C19 ----
\* the state is one left by whole handler runs: no series over the cap, the
\* candle of the last update in its series as a whole, and the signal of a
\* qualifying 15m update at the head of the log, dispatched
Settled ==
  /\ \A tf \in Timeframes : Len(ethData[tf]) <= MaxCandles
  /\ Len(alerts) = Len(signalsHistory)
  /\ \A i \in 1..Len(signalsHistory) :
       alerts[Len(alerts) + 1 - i] = signalsHistory[i]
  /\ lastMsg.kind = "kline" =>
       \E i \in 1..Len(ethData[lastMsg.timeframe]) :
         ethData[lastMsg.timeframe][i] = lastMsg.candle
  /\ ( /\ lastMsg.kind = "kline" /\ lastMsg.timeframe = "15m"
       /\ Evaluated(ethData)
       /\ \/ Bullish(ethData) /\ CrossUp(ethData)
          \/ ~Bullish(ethData) /\ CrossDown(ethData) )
     => /\ signalsHistory # <<>>
        /\ signalsHistory[1].timestamp = clock
        /\ signalsHistory[1].price = ethData["15m"][1].close

\* C19: every state a query can observe is one left by whole handler runs,
\* and the answer of a query is taken from that one state: no length over the
\* cap, no 15m update without its signal, a count that is the length of the
\* list served.
C19_QueriesSeeWholeEvents ==
  /\ []Settled
  /\ [][response' # response =>
          response' = StatusResponse \/ response' = SignalsResponse]_vars
  /\ [](response.kind = "status" =>
          /\ \A tf \in Timeframes : response.dataPoints[tf] <= MaxCandles
          /\ Len(response.lastSignals) <= RecentCount)
  /\ [](response.kind = "signals" => response.count = Len(response.signals))

\* a status answer given right after a 15m update that evicted the oldest
\* candle of a full series and emitted a signal: the cap and that signal
C19_Witness ==
  /\ response.kind = "status"
  /\ response.dataPoints["15m"] = MaxCandles
  /\ lastMsg.kind = "kline" /\ lastMsg.timeframe = "15m"
  /\ ~HasTime(ethData["15m"], 1)
  /\ response.lastSignals # <<>>
  /\ response.lastSignals[1].timestamp = clock
  /\ response.currentPrice = lastMsg.candle.close

====
